---------------------------- MODULE Spec2Model ----------------------------
(***************************************************************************)
(* Model lifecycle manager of backend/main.py: the process-wide triple     *)
(* {model, label_encoders, model_metrics}, the three durable files         *)
(* dataset.csv, pricing_model.pkl and label_encoders.pkl, and the handlers *)
(* that read and write them (startup, /train, /upload-data, /predict,      *)
(* /metrics).                                                              *)
(*                                                                         *)
(* Every handler is an `async def` coroutine served by the single event    *)
(* loop of `uvicorn.run(app)`.  train_model, load_model and the bodies of  *)
(* the handlers contain no await (the only await of the file, line 763,    *)
(* precedes every access to shared state), so a handler runs to completion *)
(* before the next one starts: one action per handler.                     *)
(***************************************************************************)
EXTENDS Integers, Sequences, FiniteSets, TLC

(* ------------------------------ bounds --------------------------------- *)
\* number of distinct strings a categorical cell can hold ("1" < "2" < ...)
NumCatVals == 2
\* number of distinct product ids
MaxId == 2

(* ------------------------------ schema --------------------------------- *)
required_columns ==
    {"product_id", "product_name", "category", "base_price", "inventory_level",
     "competitor_avg_price", "sales_last_30_days", "rating", "review_count",
     "season", "brand_tier", "material_cost", "target_price"}

numeric_columns ==
    <<"base_price", "inventory_level", "competitor_avg_price",
      "sales_last_30_days", "rating", "review_count", "material_cost",
      "target_price">>

\* the columns upload_data compares with 0 (line 802)
non_negative_columns ==
    {"base_price", "inventory_level", "competitor_avg_price",
     "review_count", "material_cost", "target_price"}

categorical_columns == {"category", "season", "brand_tier"}

\* the raw numeric features of feature_columns (lines 311-315)
numeric_features ==
    {"base_price", "inventory_level", "competitor_avg_price",
     "sales_last_30_days", "rating", "review_count", "material_cost"}

(* ------------------------------- cells --------------------------------- *)
\* A CSV cell as pandas parses it: a number, a string that is not a number,
\* or an empty field (NaN).  Strings are numbered in lexicographic order.
Num(v) == [kind |-> "num", val |-> v]
Str(s) == [kind |-> "str", val |-> s]
Null == [kind |-> "null", val |-> 0]

\* A DataFrame: its column labels and its rows (functions column -> cell).
DataFrame(cols, rows) == [columns |-> cols, rows |-> rows]

\* A file of the working directory.
NoFile == [exists |-> FALSE]
File(c) == [exists |-> TRUE, content |-> c]

Range(s) == {s[i] : i \in DOMAIN s}

Column(df, col) == {df.rows[i][col] : i \in DOMAIN df.rows}

\* pandas gives a column holding a non-numeric string the object dtype;
\* comparing such a column with a number raises TypeError.
IsObject(df, col) == \E c \in Column(df, col) : c.kind = "str"

AnyBelow(df, col, bound) ==
    \E c \in Column(df, col) : c.kind = "num" /\ c.val < bound

AnyAbove(df, col, bound) ==
    \E c \in Column(df, col) : c.kind = "num" /\ c.val > bound

AnyNull(df, col) == \E c \in Column(df, col) : c.kind = "null"

(* --------------------------- ML artifacts ------------------------------ *)
\* module-level initial values (lines 53-56)
None == [kind |-> "None"]
EmptyDict == [c \in {} |-> {}]
NoMetrics == [empty |-> TRUE]

\* LabelEncoder.fit: classes_ is the set of distinct values of the column
classes_(df, col) == {c.val : c \in Column(df, col)}

\* LabelEncoder.transform of one value: its rank in the sorted classes_;
\* a value outside classes_ raises ValueError (unseen label)
\* a lenient encoder: an unseen value is taken for a known one
KnowsOrDefault(le, v) == TRUE

Knows(le, v) == v \in le
transform(le, v) == Cardinality({u \in le : u < v})

\* the categorical part of load_and_preprocess_data (lines 301-308)
FitEncoders(df) == [col \in categorical_columns |-> classes_(df, col)]

\* sklearn cannot convert such a row to floats (check_array raises)
NotNumeric(row, cols) == \E c \in cols : row[c].kind # "num"

\* train_test_split(test_size=0.2): n_test = ceil(0.2 n), n_train = n - n_test
TestSize(n) == (n + 4) \div 5
TrainSize(n) == n - TestSize(n)

\* The held-out partition is a fixed (random_state=42) but opaque choice of
\* TestSize(n) row positions: every choice of that size is considered.
TestSets(csv) ==
    IF csv.exists /\ Len(csv.content.rows) >= 2
    THEN {S \in SUBSET (1..Len(csv.content.rows)) :
             Cardinality(S) = TestSize(Len(csv.content.rows))}
    ELSE {{}}

\* RandomForestRegressor(...) before and after fit.  A fitted forest is a
\* function of the encoded frame it was fitted on.
Unfitted == [kind |-> "RandomForestRegressor", fitted |-> FALSE]
Fitted(df) == [kind |-> "RandomForestRegressor", fitted |-> TRUE, data |-> df]

\* A Python float, in thousandths, or the float nan
Float(v) == [kind |-> "float", val |-> v]
NaN == [kind |-> "nan"]

\* r2_score(y, y_pred) (lines 341 and 383): the number sklearn computes for
\* a forest on a sample.  The forest's arithmetic is not reproduced: the
\* score is kept as a term that names the forest and the sample.
Score(scored) == [kind |-> "r2_score", of |-> scored]

\* model_metrics of train_model (lines 346-353): scores of the new model
\* on the held-out rows
TrainMetrics(df) ==
    [empty |-> FALSE, model_type |-> "Random Forest Regressor",
     training_samples |-> TrainSize(Len(df.rows)),
     scored |-> [model |-> df, on |-> df, held_out |-> TRUE],
     r2_score |-> Score([model |-> df, on |-> df, held_out |-> TRUE])]

\* model_metrics of load_model (lines 385-392): scores of the loaded model
\* on every row of the current dataset
LoadMetrics(m, df) ==
    [empty |-> FALSE, model_type |-> "Random Forest Regressor",
     training_samples |-> Len(df.rows),
     scored |-> [model |-> m.data, on |-> df, held_out |-> FALSE],
     r2_score |-> Score([model |-> m.data, on |-> df, held_out |-> FALSE])]

\* Faults of the file system while persisting (joblib.dump raising)
IOFaults == {"none", "dump_model", "dump_encoders"}

Outcome(raised, m, le, mm, pm, pe) ==
    [raised |-> raised, model |-> m, label_encoders |-> le,
     model_metrics |-> mm, pricing_model_pkl |-> pm, label_encoders_pkl |-> pe]

\* train_model (lines 319-364) together with load_and_preprocess_data
\* (lines 294-317).  csv, pm, pe: the three files; m, le, mm: the globals
\* before the call; test: the held-out positions; io: the fault injected
\* while persisting.  raised = "" when the call returns normally.
train_model(csv, m, le, mm, pm, pe, test, io) ==
    IF ~csv.exists
    THEN Outcome("read_csv", m, le, mm, pm, pe)
    ELSE
      LET df == csv.content
          n == Len(df.rows)
          enc == FitEncoders(df)
          train == (1..n) \ test
          features == numeric_features \cup {"target_price"}
      IN  IF n < 2
          THEN Outcome("train_test_split", m, enc, mm, pm, pe)
          ELSE IF \E i \in train : NotNumeric(df.rows[i], features)
          THEN Outcome("fit", Unfitted, enc, mm, pm, pe)
          ELSE IF \E i \in test : NotNumeric(df.rows[i], features)
          THEN Outcome("predict", Fitted(df), enc, mm, pm, pe)
          ELSE IF io = "dump_model"
          THEN Outcome("dump_model", Fitted(df), enc, TrainMetrics(df), pm, pe)
          ELSE IF io = "dump_encoders"
          THEN Outcome("dump_encoders", Fitted(df), enc, TrainMetrics(df),
                       File(Fitted(df)), pe)
          ELSE Outcome("", Fitted(df), enc, TrainMetrics(df),
                       File(Fitted(df)), File(enc))

\* load_model (lines 366-395).  returned is the function's result when it
\* does not raise.
load_model(csv, m, le, mm, pm, pe) ==
    IF pm.exists /\ pe.exists
    THEN IF csv.exists
         THEN LET df == csv.content
                  enc == FitEncoders(df)
                  features == numeric_features \cup {"target_price"}
              IN  IF \E i \in DOMAIN df.rows : NotNumeric(df.rows[i], features)
                  THEN [raised |-> "predict", returned |-> FALSE,
                        model |-> pm.content, label_encoders |-> enc,
                        model_metrics |-> mm]
                  ELSE [raised |-> "", returned |-> TRUE,
                        model |-> pm.content, label_encoders |-> enc,
                        model_metrics |-> LoadMetrics(pm.content, df)]
         ELSE [raised |-> "", returned |-> TRUE, model |-> pm.content,
               label_encoders |-> pe.content, model_metrics |-> mm]
    ELSE [raised |-> "", returned |-> FALSE, model |-> m,
          label_encoders |-> le, model_metrics |-> mm]

(* ------------------------- upload validation --------------------------- *)
\* One iteration of the loop of lines 796-810 on a column whose comparison
\* does not raise: the messages it appends.
ColumnErrors(df, col) ==
    (IF col \in non_negative_columns /\ AnyBelow(df, col, 0)
     THEN <<[error |-> "negative values", column |-> col]>> ELSE <<>>)
    \o
    (IF col = "rating" /\ (AnyAbove(df, col, 5) \/ AnyBelow(df, col, 0))
     THEN <<[error |-> "rating should be between 0 and 5", column |-> col]>>
     ELSE <<>>)

\* The comparisons of lines 804 and 809 raise TypeError on an object column.
\* pd.to_numeric(..., errors='coerce') (line 799) never raises and its
\* result is discarded, so a column that is not compared is not examined.
ComparisonRaises(df, col) ==
    (col \in non_negative_columns \/ col = "rating") /\ IsObject(df, col)

\* position in numeric_columns of the first column whose check raises,
\* Len(numeric_columns) + 1 when none does
FirstRaise(df) ==
    LET raising == {i \in DOMAIN numeric_columns :
                       ComparisonRaises(df, numeric_columns[i])}
    IN  IF raising = {} THEN Len(numeric_columns) + 1
        ELSE CHOOSE i \in raising : \A j \in raising : i <= j

RECURSIVE LoopErrors(_, _, _)
\* messages appended by iterations from..upto-1 of the loop
LoopErrors(df, from, upto) ==
    IF from >= upto THEN <<>>
    ELSE ColumnErrors(df, numeric_columns[from]) \o LoopErrors(df, from + 1, upto)

\* lines 812-819
null_columns(df) == {col \in required_columns : AnyNull(df, col)}

\* validation_errors of upload_data (lines 783-822)
ValidationErrors(df) ==
    (IF Len(df.rows) = 0 THEN <<[error |-> "CSV file is empty"]>> ELSE <<>>)
    \o LoopErrors(df, 1, FirstRaise(df))
    \o (IF FirstRaise(df) <= Len(numeric_columns)
        THEN <<[error |-> "Data type validation error",
                column |-> numeric_columns[FirstRaise(df)]]>>
        ELSE IF null_columns(df) # {}
        THEN <<[error |-> "Null values found in columns",
                columns |-> null_columns(df)]>>
        ELSE <<>>)

\* a check that stops at the first required column it does not find
missing_columns_first(df) ==
    IF required_columns \subseteq df.columns THEN {}
    ELSE {CHOOSE c \in required_columns \ df.columns : TRUE}

\* missing_columns of upload_data (lines 767-769)
missing_columns(df) == required_columns \ df.columns

(* ------------------------------ merging -------------------------------- *)
\* uploaded_df[existing_data.columns] (line 847); KeyError unless every
\* requested label is a column of the frame
Reindex(df, cols) ==
    DataFrame(cols, [i \in DOMAIN df.rows |-> [c \in cols |-> df.rows[i][c]]])

\* pd.concat([a, b], ignore_index=True) of frames with the same column set
concat(a, b) == DataFrame(a.columns, a.rows \o b.rows)

\* the subsequence of s at the positions in idx
Pick(s, idx) ==
    [k \in 1..Cardinality(idx) |->
        s[CHOOSE i \in idx : Cardinality({j \in idx : j <= i}) = k]]

\* The Python value read_csv gives the cell of row i in column col: in an
\* object column every cell, also one that looks like a number, is a string;
\* in a numeric column it is a number.  1 and "1" are different values.
InMemory(df, col, i) == [cell |-> df.rows[i][col], object |-> IsObject(df, col)]

product_ids(df) == [i \in DOMAIN df.rows |-> InMemory(df, "product_id", i)]

\* drop_duplicates(subset=['product_id'], keep='last') (line 856) of a frame
\* whose product_id values in memory are keys
drop_duplicates(df, keys) ==
    LET kept == {i \in DOMAIN df.rows :
                    \A j \in DOMAIN df.rows : j > i => keys[j] # keys[i]}
    IN  DataFrame(df.columns, Pick(df.rows, kept))

\* lines 834-862 of upload_data for a frame that passed validation:
\* raised = "KeyError" when the re-ordering of line 847 fails
Merge(csv, uploaded) ==
    LET existing_data == IF csv.exists THEN csv.content ELSE uploaded
        mismatch == csv.exists /\ existing_data.columns # uploaded.columns
        key_error == mismatch /\ ~(existing_data.columns \subseteq uploaded.columns)
        uploaded_df == IF mismatch /\ ~key_error
                       THEN Reindex(uploaded, existing_data.columns)
                       ELSE uploaded
        combined == IF csv.exists /\ ~key_error
                    THEN concat(existing_data, uploaded_df)
                    ELSE uploaded_df
        keys == IF csv.exists /\ ~key_error
                THEN product_ids(existing_data) \o product_ids(uploaded_df)
                ELSE product_ids(uploaded_df)
        combined_data == drop_duplicates(combined, keys)
    IN  [raised |-> IF key_error THEN "KeyError" ELSE "",
         combined_data |-> combined_data,
         upload_stats |->
            [new_records |-> Len(uploaded_df.rows),
             total_records |-> Len(combined_data.rows),
             duplicates_removed |-> Len(combined.rows) - Len(combined_data.rows),
             existing_records |-> IF csv.exists THEN Len(csv.content.rows) ELSE 0]]

(* ------------------------------ inputs --------------------------------- *)
CatVals == 1..NumCatVals
ProductIds == 1..MaxId

\* a well-formed record of product id in category/season/tier cat
Row(id, cat) ==
    [c \in required_columns |->
        CASE c = "product_id" -> Num(id)
          [] c = "product_name" -> Str(id)
          [] c \in categorical_columns -> Str(cat)
          [] c = "rating" -> Num(4)
          [] c = "target_price" -> Num(10 * cat)
          [] OTHER -> Num(10)]

\* the dataset shipped with the application: one row per product
D0 == DataFrame(required_columns, [i \in ProductIds |-> Row(i, 1)])

\* cells by which an uploaded row may differ from a well-formed one
Deviations ==
    {<<"sales_last_30_days", Str(1)>>, <<"sales_last_30_days", Num(-1)>>,
     <<"rating", Num(7)>>, <<"rating", Num(-1)>>, <<"rating", Null>>,
     <<"base_price", Num(-1)>>, <<"base_price", Str(1)>>,
     <<"category", Null>>}

\* uploads concern the product with the highest id
UploadedRows ==
    {Row(MaxId, cat) : cat \in CatVals}
    \cup {[Row(MaxId, NumCatVals) EXCEPT ![d[1]] = d[2]] : d \in Deviations}

UploadedFrames ==
    {DataFrame(required_columns, <<r>>) : r \in UploadedRows}
    \cup {D0, DataFrame(required_columns, <<>>)}
    \cup {Reindex(DataFrame(required_columns, <<Row(MaxId, 1)>>),
                  required_columns \ gone) :
            gone \in {{"rating"}, {"rating", "season"}}}
    \cup {DataFrame(required_columns \cup {"notes"},
                    <<[c \in required_columns \cup {"notes"} |->
                         IF c = "notes" THEN Str(1) ELSE Row(MaxId, 1)[c]]>>)}

\* the uploaded file: whether its name ends with .csv, and its parsed content
Uploads ==
    {[csv_name |-> TRUE, df |-> f] : f \in UploadedFrames}
    \cup {[csv_name |-> FALSE, df |-> D0]}

\* batches that exercise the merge: a batch that repeats a product id, a
\* batch with a product id that is not a number, a batch with one more
\* column than the schema
MergedFrames ==
    {DataFrame(required_columns, <<Row(MaxId, cat)>>) : cat \in CatVals}
    \cup {D0,
          DataFrame(required_columns, <<Row(MaxId, 1), Row(MaxId, NumCatVals)>>),
          DataFrame(required_columns,
                    <<Row(MaxId, 1),
                      [Row(MaxId, 1) EXCEPT !["product_id"] = Str(1)]>>),
          DataFrame(required_columns \cup {"notes"},
                    <<[c \in required_columns \cup {"notes"} |->
                         IF c = "notes" THEN Str(1) ELSE Row(MaxId, 1)[c]]>>)}

\* a batch with several violations: a negative stock, a competitor price
\* that is not a number, a rating above 5 and a category left empty
ViolatingFrames ==
    {DataFrame(required_columns,
               <<Row(MaxId, 1),
                 [Row(MaxId, NumCatVals) EXCEPT !["inventory_level"] = Num(-1),
                                                !["competitor_avg_price"] = Str(1),
                                                !["rating"] = Num(7),
                                                !["category"] = Null]>>)}

IngestionUploads ==
    {[csv_name |-> TRUE, df |-> f] : f \in MergedFrames \cup ViolatingFrames}

\* ProductInput: the three categorical fields (the numeric ones are fixed);
\* at most one of them differs from the first string
Products ==
    {p \in [category : CatVals, season : CatVals, brand_tier : CatVals,
            base_price : {10}] :
        Cardinality({c \in categorical_columns : p[c] # 1}) <= 1}

\* Pricing: the scores a model may have been measured with, the prices it may
\* predict and the base prices it is asked about
R2Grid == 30
MaxPrice == 44

R2Values == {1000 - 50 * k : k \in 0..R2Grid}
Prices == 1..MaxPrice
BasePrices == {20, 40}

\* a dataset whose products all have the target price t
PricedDataset(t) ==
    DataFrame(required_columns,
              [i \in ProductIds |-> [Row(i, 1) EXCEPT !["target_price"] = Num(t)]])

\* the metrics of a training run on df whose r2_score came out as r2
MeasuredMetrics(df, r2) == [TrainMetrics(df) EXCEPT !.r2_score = r2]

PricedProducts ==
    {[category |-> 1, season |-> 1, brand_tier |-> 1, base_price |-> b] :
        b \in BasePrices}

(* ------------------------------- state --------------------------------- *)
VARIABLES
    dataset_csv,          \* the file dataset.csv
    pricing_model_pkl,    \* the file pricing_model.pkl
    label_encoders_pkl,   \* the file label_encoders.pkl
    model,                \* global model
    label_encoders,       \* global label_encoders
    model_metrics,        \* global model_metrics
    started,              \* the startup event of this process has run
    request,              \* the request served last
    response              \* the answer it got

vars == <<dataset_csv, pricing_model_pkl, label_encoders_pkl, model,
          label_encoders, model_metrics, started, request, response>>

files == <<dataset_csv, pricing_model_pkl, label_encoders_pkl>>
triple == <<model, label_encoders, model_metrics>>

\* A working directory without dataset, with the shipped dataset, or with
\* the shipped dataset and the artifacts of a model trained on it.
Init ==
    /\ \E present \in BOOLEAN, trained \in BOOLEAN :
          /\ trained => present
          /\ dataset_csv = IF present THEN File(D0) ELSE NoFile
          /\ pricing_model_pkl = IF trained THEN File(Fitted(D0)) ELSE NoFile
          /\ label_encoders_pkl = IF trained THEN File(FitEncoders(D0)) ELSE NoFile
    /\ model = None
    /\ label_encoders = EmptyDict
    /\ model_metrics = NoMetrics
    /\ started = FALSE
    /\ request = [op |-> "none"]
    /\ response = [op |-> "none"]

(* ------------------------------ handlers ------------------------------- *)
\* startup_event (lines 398-439) of a fresh process: the globals have their
\* module-level values; any exception is logged and the server continues.
startup(faults) ==
    \E io \in faults, test \in TestSets(dataset_csv) :
      LET l == load_model(dataset_csv, None, EmptyDict, NoMetrics,
                          pricing_model_pkl, label_encoders_pkl)
          t == train_model(dataset_csv, l.model, l.label_encoders,
                           l.model_metrics, pricing_model_pkl,
                           label_encoders_pkl, test, io)
          trains == l.raised = "" /\ ~l.returned
      IN  /\ model' = IF trains THEN t.model ELSE l.model
          /\ label_encoders' = IF trains THEN t.label_encoders ELSE l.label_encoders
          /\ model_metrics' = IF trains THEN t.model_metrics ELSE l.model_metrics
          /\ pricing_model_pkl' = IF trains THEN t.pricing_model_pkl
                                  ELSE pricing_model_pkl
          /\ label_encoders_pkl' = IF trains THEN t.label_encoders_pkl
                                   ELSE label_encoders_pkl
          /\ started' = TRUE
          /\ request' = [op |-> "startup_event"]
          /\ response' = [op |-> "startup_event", trained |-> trains,
                          error |-> IF trains THEN t.raised ELSE l.raised]
          /\ UNCHANGED dataset_csv

startup_event == startup(IOFaults)

\* POST /train (lines 734-741)
retrain_model ==
    /\ started
    /\ \E io \in IOFaults, test \in TestSets(dataset_csv) :
         LET t == train_model(dataset_csv, model, label_encoders, model_metrics,
                              pricing_model_pkl, label_encoders_pkl, test, io)
         IN  /\ model' = t.model
             /\ label_encoders' = t.label_encoders
             /\ model_metrics' = t.model_metrics
             /\ pricing_model_pkl' = t.pricing_model_pkl
             /\ label_encoders_pkl' = t.label_encoders_pkl
             /\ request' = [op |-> "retrain_model"]
             /\ response' =
                  IF t.raised = ""
                  THEN [op |-> "retrain_model", status |-> 200,
                        metrics |-> t.model_metrics]
                  ELSE [op |-> "retrain_model", status |-> 500,
                        error |-> t.raised]
             /\ UNCHANGED <<dataset_csv, started>>

\* a handler that lets the training exception escape to line 900
RetrainingResponseRaising(upload_stats, t) ==
    IF t.raised = ""
    THEN [op |-> "upload_data", status |-> 200, upload_stats |-> upload_stats,
          model_metrics |-> t.model_metrics, retraining_status |-> "completed"]
    ELSE [op |-> "upload_data", status |-> 500, error |-> "Unexpected error"]

\* the two answers of lines 865-895, after the merged dataset was written
RetrainingResponse(upload_stats, t) ==
    IF t.raised = ""
    THEN [op |-> "upload_data", status |-> 200, upload_stats |-> upload_stats,
          model_metrics |-> t.model_metrics, retraining_status |-> "completed"]
    ELSE [op |-> "upload_data", status |-> 200, upload_stats |-> upload_stats,
          retraining_status |-> "failed", retraining_error |-> t.raised]

\* the rejection of lines 754-832 and 897-904, or [status |-> 200] when the
\* file passes every check and the merge can be computed
Rejection(file, csv) ==
    IF ~file.csv_name
    THEN [op |-> "upload_data", status |-> 400, error |-> "Invalid file type"]
    ELSE IF missing_columns(file.df) # {}
    THEN [op |-> "upload_data", status |-> 400,
          error |-> "Missing required columns",
          missing_columns |-> missing_columns(file.df),
          required_columns |-> required_columns,
          uploaded_columns |-> file.df.columns]
    ELSE IF ValidationErrors(file.df) # <<>>
    THEN [op |-> "upload_data", status |-> 400,
          error |-> "Data validation failed",
          validation_errors |-> ValidationErrors(file.df)]
    ELSE IF Merge(csv, file.df).raised # ""
    THEN [op |-> "upload_data", status |-> 500, error |-> "Unexpected error"]
    ELSE [op |-> "upload_data", status |-> 200]

\* POST /upload-data (lines 743-904) with a file of the set uploads, under
\* the persisting faults of the set faults
upload(uploads, faults) ==
    /\ started
    /\ \E file \in uploads :
         LET rejection == Rejection(file, dataset_csv)
             merged == Merge(dataset_csv, file.df)
             written == File(merged.combined_data)
         IN  /\ request' = [op |-> "upload_data", file |-> file]
             /\ IF rejection.status # 200
                THEN /\ response' = rejection
                     /\ UNCHANGED <<files, triple>>
                ELSE \E io \in faults, test \in TestSets(written) :
                       LET t == train_model(written, model, label_encoders,
                                            model_metrics, pricing_model_pkl,
                                            label_encoders_pkl, test, io)
                       IN  /\ dataset_csv' = written
                           /\ model' = t.model
                           /\ label_encoders' = t.label_encoders
                           /\ model_metrics' = t.model_metrics
                           /\ pricing_model_pkl' = t.pricing_model_pkl
                           /\ label_encoders_pkl' = t.label_encoders_pkl
                           /\ response' = RetrainingResponse(merged.upload_stats, t)
             /\ UNCHANGED started

upload_data == upload(Uploads, IOFaults)

\* RandomForestRegressor.predict on one encoded row: the forest answers with
\* the target of a training row that falls in the same leaf (here: the last
\* row of its training frame with the same category code, else the first)
ModelPredict(m, category_encoded) ==
    LET rows == m.data.rows
        le == classes_(m.data, "category")
        same == {i \in DOMAIN rows :
                    transform(le, rows[i]["category"].val) = category_encoded}
        leaf == IF same = {} THEN 1
                ELSE CHOOSE i \in same : \A j \in same : j <= i
    IN  rows[leaf]["target_price"].val

\* Python's max(a, b) and min(a, b) of two floats: the first argument unless
\* the second is greater (smaller); every comparison with nan is False
PyMax(a, b) ==
    IF a.kind = "float" /\ b.kind = "float" /\ b.val > a.val THEN b ELSE a

PyMin(a, b) ==
    IF a.kind = "float" /\ b.kind = "float" /\ b.val < a.val THEN b ELSE a

\* model_metrics.get('r2_score', 0.8)
Get(mm) == IF mm.empty THEN Float(800) ELSE mm.r2_score

\* a confidence that is capped from above only
confidence_score_capped(r2) ==
    IF r2.kind = "r2_score" THEN [kind |-> "confidence_score", r2_score |-> r2]
    ELSE PyMin(Float(950), r2)

\* min(0.95, max(0.6, r2)) (lines 664 and 715); of a score that is kept as
\* a term, the term of its confidence
confidence_score(r2) ==
    IF r2.kind = "r2_score" THEN [kind |-> "confidence_score", r2_score |-> r2]
    ELSE PyMin(Float(950), PyMax(Float(600), r2))

\* price_change of line 704 as the fraction num / den, for base_price > 0
price_change(predicted_price, base_price) ==
    [num |-> (predicted_price - base_price) * 100, den |-> base_price]

\* a recommendation whose thresholds are inclusive
recommendation_inclusive(predicted_price, base_price) ==
    LET c == price_change(predicted_price, base_price)
    IN  IF c.num >= 5 * c.den
        THEN "Price increase recommended due to market conditions"
        ELSE IF c.num <= (-5) * c.den
        THEN "Price reduction suggested to boost sales"
        ELSE "Current pricing is optimal"

\* recommendation of lines 706-712
recommendation(predicted_price, base_price) ==
    LET c == price_change(predicted_price, base_price)
    IN  IF c.num > 5 * c.den
        THEN "Price increase recommended due to market conditions"
        ELSE IF c.num < (-5) * c.den
        THEN "Price reduction suggested to boost sales"
        ELSE "Current pricing is optimal"

\* the answer of predict_price (lines 674-725) in a given state of the globals
predict(m, le, mm, product) ==
    IF m = None
    THEN [op |-> "predict_price", status |-> 500, error |-> "Model not loaded"]
    ELSE IF \E col \in categorical_columns : col \notin DOMAIN le
    THEN [op |-> "predict_price", status |-> 400, error |-> "Prediction error",
          cause |-> "KeyError"]
    ELSE IF \E col \in categorical_columns : ~Knows(le[col], product[col])
    THEN [op |-> "predict_price", status |-> 400, error |-> "Prediction error",
          cause |-> "unseen labels"]
    ELSE IF ~m.fitted
    THEN [op |-> "predict_price", status |-> 400, error |-> "Prediction error",
          cause |-> "NotFittedError"]
    ELSE LET predicted_price ==
                 ModelPredict(m, transform(le["category"], product["category"]))
         IN  [op |-> "predict_price", status |-> 200,
              predicted_price |-> predicted_price,
              confidence_score |-> confidence_score(Get(mm)),
              price_change_percentage |->
                  price_change(predicted_price, product.base_price),
              recommendation |->
                  recommendation(predicted_price, product.base_price)]

\* POST /predict with a product of the set products
predict_request(products) ==
    /\ started
    /\ \E product \in products :
         /\ request' = [op |-> "predict_price", product |-> product]
         /\ response' = predict(model, label_encoders, model_metrics, product)
    /\ UNCHANGED <<files, triple, started>>

predict_price == predict_request(Products)

\* predict_product_price_internal (lines 633-672) on a row of the dataset:
\* raised = "" when it returns
predict_product_price_internal(m, le, mm, row) ==
    IF m = None
    THEN [raised |-> "Model not loaded"]
    ELSE IF \/ \E col \in categorical_columns : col \notin DOMAIN le
            \/ \E col \in categorical_columns :
                  row[col].kind # "str" \/ ~Knows(le[col], row[col].val)
            \/ ~m.fitted
            \/ NotNumeric(row, numeric_features)
    THEN [raised |-> "Prediction error"]
    ELSE [raised |-> "",
          predicted_price |->
              ModelPredict(m, transform(le["category"], row["category"].val)),
          confidence |-> confidence_score(Get(mm))]

\* float(row[...]) and int(row[...]) of lines 594-603 and 614-623: float
\* raises on a string that is not a number, int also on nan
ConversionRaises(row) ==
    \/ \E c \in {"base_price", "target_price", "rating",
                  "competitor_avg_price", "material_cost"} : row[c].kind = "str"
    \/ \E c \in {"inventory_level", "review_count", "sales_last_30_days"} :
          row[c].kind # "num"

\* the entry of the listing for row index of the dataset (lines 587-627)
ProductEntry(m, le, mm, row, index) ==
    LET prediction == predict_product_price_internal(m, le, mm, row)
    IN  IF prediction.raised = ""
        THEN [product_id |-> index, target_price |-> row["target_price"].val,
              predicted_price |-> prediction.predicted_price,
              confidence |-> prediction.confidence]
        ELSE [product_id |-> index, target_price |-> row["target_price"].val,
              predicted_price |-> row["target_price"].val,
              confidence |-> Float(850)]

\* GET /products (lines 579-631)
get_products ==
    /\ started
    /\ request' = [op |-> "get_products"]
    /\ response' =
         IF ~dataset_csv.exists
            \/ \E i \in DOMAIN dataset_csv.content.rows :
                  ConversionRaises(dataset_csv.content.rows[i])
         THEN [op |-> "get_products", status |-> 500,
               error |-> "Error loading products"]
         ELSE [op |-> "get_products", status |-> 200,
               products |->
                  [i \in DOMAIN dataset_csv.content.rows |->
                      ProductEntry(model, label_encoders, model_metrics,
                                   dataset_csv.content.rows[i], i)]]
    /\ UNCHANGED <<files, triple, started>>

\* GET /metrics (lines 727-732)
ModelMetrics(mm) ==
    IF mm.empty
    THEN [op |-> "get_model_metrics", status |-> 404,
          error |-> "No model metrics available"]
    ELSE [op |-> "get_model_metrics", status |-> 200, metrics |-> mm]

get_model_metrics ==
    /\ started
    /\ request' = [op |-> "get_model_metrics"]
    /\ response' = ModelMetrics(model_metrics)
    /\ UNCHANGED <<files, triple, started>>

Next ==
    \/ startup_event
    \/ retrain_model
    \/ upload_data
    \/ predict_price
    \/ get_products
    \/ get_model_metrics

Spec == Init /\ [][Next]_vars

\* Ingestion: the same process fed with the batches that exercise the merge,
\* on a file system that does not fail.
startup_ingestion == startup({"none"})
upload_ingestion == upload(IngestionUploads, {"none"})

NextIngestion ==
    \/ startup_ingestion
    \/ upload_ingestion

SpecIngestion == Init /\ [][NextIngestion]_vars

\* Pricing: a started process that serves a model trained on a dataset with
\* one target price, with the metrics of that run (any score, nan for a
\* held-out sample of a single row), or that serves artifacts loaded
\* without a dataset, hence without metrics (lines 366-395).
InitPredict ==
    /\ \E t \in Prices, r2 \in {Float(v) : v \in R2Values} \cup {NaN, None} :
          /\ t = 10 \/ r2 = Float(800)
          /\ dataset_csv = IF r2 = None THEN NoFile ELSE File(PricedDataset(t))
          /\ pricing_model_pkl = File(Fitted(PricedDataset(t)))
          /\ label_encoders_pkl = File(FitEncoders(PricedDataset(t)))
          /\ model = Fitted(PricedDataset(t))
          /\ label_encoders = FitEncoders(PricedDataset(t))
          /\ model_metrics = IF r2 = None THEN NoMetrics
                             ELSE MeasuredMetrics(PricedDataset(t), r2)
    /\ started = TRUE
    /\ request = [op |-> "none"]
    /\ response = [op |-> "none"]

predict_priced == predict_request(PricedProducts)

NextPredict ==
    \/ predict_priced
    \/ get_products

SpecPredict == InitPredict /\ [][NextPredict]_vars

(* ------------------------------ properties ----------------------------- *)
\* what a training run that completes on the dataset csv leaves behind
TrainedOn(csv, m, le, mm) ==
    /\ csv.exists
    /\ m = Fitted(csv.content)
    /\ le = FitEncoders(csv.content)
    /\ mm = TrainMetrics(csv.content)

\* the last handler was a training trigger that reached train_model
IsTrigger(r) ==
    \/ r.op = "retrain_model"
    \/ r.op = "upload_data" /\ r.status = 200

\* the last handler called train_model and the call raised
TrainingFailed(r) ==
    \/ r.op = "retrain_model" /\ r.status = 500
    \/ r.op = "upload_data" /\ r.status = 200 /\ r.retraining_status = "failed"

\* C1: when train_model fails, whichever handler called it, the triple
\* {model, label_encoders, model_metrics} is what it was before the call
\* (for the startup event: the module-level values of the fresh process).
TrainFailureKeepsTriple ==
    [][ /\ TrainingFailed(response') => UNCHANGED triple
        /\ (response'.op = "startup_event" /\ response'.trained
               /\ response'.error # "")
              => triple' = <<None, EmptyDict, NoMetrics>> ]_vars

\* C2: whenever a fitted model is active, the active encoders are the ones
\* fitted in the training run that produced that model.
EncodersPairedWithModel ==
    (model # None /\ model.fitted) => label_encoders = FitEncoders(model.data)

\* C3: a reader (predict or metrics request) of a process that has a model
\* sees a triple published as a whole by one train_model call or by one
\* load_model call.
PublishedByTrain ==
    /\ model.fitted
    /\ label_encoders = FitEncoders(model.data)
    /\ model_metrics = TrainMetrics(model.data)

PublishedByLoad ==
    /\ model.fitted
    /\ \/ /\ ~model_metrics.empty
          /\ model_metrics = LoadMetrics(model, model_metrics.scored.on)
          /\ label_encoders = FitEncoders(model_metrics.scored.on)
       \/ /\ model_metrics.empty
          /\ label_encoders = FitEncoders(model.data)

ReadersSeeOneTriple ==
    (started /\ model # None) => (PublishedByTrain \/ PublishedByLoad)

\* C4: once two training triggers have run one after the other, the parts
\* of the triple that are set and the model files that exist all come from
\* one training run, the run on some dataset D.
PartsFrom(D) ==
    /\ (model # None /\ model.fitted) => model = Fitted(D)
    /\ DOMAIN label_encoders # {} => label_encoders = FitEncoders(D)
    /\ ~model_metrics.empty => model_metrics = TrainMetrics(D)
    /\ pricing_model_pkl.exists => pricing_model_pkl.content = Fitted(D)
    /\ label_encoders_pkl.exists => label_encoders_pkl.content = FitEncoders(D)

TrainedDatasets ==
    {dataset_csv.content : x \in {y \in {1} : dataset_csv.exists}}
    \cup {model.data : x \in {y \in {1} : model # None /\ model.fitted}}
    \cup {pricing_model_pkl.content.data : x \in {y \in {1} : pricing_model_pkl.exists}}

AllFromOneRun == \E D \in TrainedDatasets : PartsFrom(D)

TwoTriggersLeaveOneRun ==
    [][ (IsTrigger(response) /\ IsTrigger(response')) => AllFromOneRun' ]_vars

\* C5: pricing_model.pkl and label_encoders.pkl, when both are on disk, were
\* written by the same training run.
ArtifactsPaired ==
    (pricing_model_pkl.exists /\ label_encoders_pkl.exists)
        => label_encoders_pkl.content = FitEncoders(pricing_model_pkl.content.data)

\* C6: a prediction request with a categorical value outside the active
\* vocabulary gets no price: with a model in place it is answered by the
\* unseen-label prediction error.
UnknownValue(le, product) ==
    \E col \in categorical_columns :
        col \in DOMAIN le /\ product[col] \notin le[col]

UnknownCategoryFails ==
    (request.op = "predict_price" /\ UnknownValue(label_encoders, request.product))
        => /\ response.status # 200
           /\ model # None => (response.status = 400 /\ response.cause = "unseen labels")

UnknownCategoryFailsWitness ==
    /\ request.op = "predict_price"
    /\ model # None
    /\ UnknownValue(label_encoders, request.product)
    /\ response.status = 400

\* C7: after a startup in which neither load_model nor train_model completed,
\* every prediction request is answered "Model not loaded".
NotLoadedAfterFailedStartup ==
    [][ (response'.op = "startup_event" /\ response'.error # "")
           => \A p \in Products :
                 predict(model', label_encoders', model_metrics', p).status = 500 ]_vars

\* C8: an upload that passes validation keeps the merged dataset whatever
\* train_model does, and is answered 200 with the upload statistics and a
\* retraining_status that is "failed" whenever training did not complete.
DegradedSuccess ==
    [][ (request'.op = "upload_data"
            /\ Rejection(request'.file, dataset_csv).status = 200)
           => LET merged == Merge(dataset_csv, request'.file.df)
              IN  /\ dataset_csv' = File(merged.combined_data)
                  /\ response'.status = 200
                  /\ response'.upload_stats = merged.upload_stats
                  /\ response'.retraining_status \in {"completed", "failed"}
                  /\ ~TrainedOn(dataset_csv', model', label_encoders', model_metrics')
                        => response'.retraining_status = "failed" ]_vars

DegradedSuccessWitness ==
    /\ request.op = "upload_data"
    /\ response.status = 200
    /\ response.retraining_status = "failed"
    /\ dataset_csv.exists
    /\ Range(request.file.df.rows) \subseteq Range(dataset_csv.content.rows)
    /\ ~TrainedOn(dataset_csv, model, label_encoders, model_metrics)

\* C9: a rejected upload changes neither dataset.csv nor the triple nor the
\* model files; a wrong file type and missing columns are rejected, and the
\* rejection for missing columns lists exactly the required columns that the
\* upload lacks.
RejectedUploadChangesNothing ==
    [][ request'.op = "upload_data"
           => LET file == request'.file
                  absent == required_columns \ file.df.columns
              IN  /\ response'.status # 200 => UNCHANGED <<files, triple>>
                  /\ (~file.csv_name \/ absent # {}) => response'.status = 400
                  /\ (file.csv_name /\ absent # {})
                        => /\ response'.error = "Missing required columns"
                           /\ response'.missing_columns = absent ]_vars

RejectedUploadWitness ==
    /\ request.op = "upload_data"
    /\ response.status = 400
    /\ response.error = "Missing required columns"
    /\ Cardinality(response.missing_columns) = 2
    /\ dataset_csv.exists
    /\ model # None

\* C10: every row of an accepted batch has a non-negative number in each of
\* the eight numeric columns, a rating of at most 5 and no null in a
\* required column.
AcceptedRowsValid ==
    (request.op = "upload_data" /\ response.status = 200)
        => \A row \in Range(request.file.df.rows) :
              /\ \A col \in Range(numeric_columns) :
                    row[col].kind = "num" /\ row[col].val >= 0
              /\ row["rating"].val <= 5
              /\ \A col \in required_columns : row[col].kind # "null"

\* the step is an upload that was merged into dataset.csv
Merged(req, resp) == req.op = "upload_data" /\ resp.status = 200

\* the rows of df whose product_id is written id in the file
RowsOf(df, id) == {i \in DOMAIN df.rows : df.rows[i]["product_id"] = id}

\* C11: after a merged upload dataset.csv has one row per product_id; for a
\* product_id of the batch it is the last row of the batch with that id; the
\* rows of other products are the ones that were stored before.
MergeLastWriteWins ==
    [][ Merged(request', response')
           => LET batch == request'.file.df
                  stored == dataset_csv'.content
                  before == IF dataset_csv.exists THEN dataset_csv.content.rows
                            ELSE <<>>
                  incoming == {batch.rows[i]["product_id"] : i \in DOMAIN batch.rows}
              IN  /\ \A i \in DOMAIN stored.rows :
                        RowsOf(stored, stored.rows[i]["product_id"]) = {i}
                  /\ \A i \in DOMAIN batch.rows :
                        (\A j \in DOMAIN batch.rows :
                            j > i => batch.rows[j]["product_id"] # batch.rows[i]["product_id"])
                        => \E k \in DOMAIN stored.rows :
                              \A c \in stored.columns \cap batch.columns :
                                  stored.rows[k][c] = batch.rows[i][c]
                  /\ \A i \in DOMAIN before :
                        before[i]["product_id"] \notin incoming
                        => before[i] \in Range(stored.rows) ]_vars

\* C12: uploading the batch that was just merged once more reports as many
\* duplicates removed as records uploaded and the same total, and leaves the
\* rows of dataset.csv as they were.
SecondUploadIdempotent ==
    [][ (Merged(request, response) /\ request' = request)
           => /\ response'.status = 200
              /\ response'.upload_stats.duplicates_removed
                    = response'.upload_stats.new_records
              /\ response'.upload_stats.total_records
                    = response.upload_stats.total_records
              /\ Range(dataset_csv'.content.rows) = Range(dataset_csv.content.rows)
      ]_vars

\* C13: a failed prediction is surfaced as a failure: a product listing that
\* is answered with prices holds, for every row of the dataset, a price the
\* model predicted for that row, never a substitute for a failed prediction.
FailedPredictionSurfaced ==
    (request.op = "get_products" /\ response.status = 200)
        => \A i \in DOMAIN dataset_csv.content.rows :
              predict_product_price_internal(
                  model, label_encoders, model_metrics,
                  dataset_csv.content.rows[i]).raised = ""

\* the state right after a training run on the dataset that persisted both
\* artifacts
TrainedAndPersisted ==
    /\ TrainedOn(dataset_csv, model, label_encoders, model_metrics)
    /\ pricing_model_pkl = File(model)
    /\ label_encoders_pkl = File(label_encoders)

\* C14: a restart that reloads the artifacts of a training run, the dataset
\* unchanged, answers every prediction request as it was answered right
\* after the training: same predicted price, same confidence.
ReloadReproducesPredictions ==
    [][ (/\ TrainedAndPersisted
         /\ request'.op = "startup_event"
         /\ ~response'.trained /\ response'.error = "")
        => \A product \in Products :
              predict(model', label_encoders', model_metrics', product)
                  = predict(model, label_encoders, model_metrics, product)
      ]_vars

\* a confidence within the band [0.6, 0.95]
InBand(c) == c.kind = "float" /\ 600 <= c.val /\ c.val <= 950

\* r2 clamped to the band
Clamped(r2) == IF r2 < 600 THEN 600 ELSE IF r2 > 950 THEN 950 ELSE r2

\* the confidence c is the one the active metrics call for
FromMetrics(c) ==
    /\ InBand(c)
    /\ (~model_metrics.empty /\ model_metrics.r2_score.kind = "float")
          => c.val = Clamped(model_metrics.r2_score.val)

\* C15: every successful prediction carries a confidence in [0.6, 0.95],
\* whatever the active metrics (score below 0.6, above 0.95, negative,
\* missing): the r2_score clamped to the band.
ConfidenceInBand ==
    /\ (request.op = "predict_price" /\ response.status = 200)
          => FromMetrics(response.confidence_score)
    /\ (request.op = "get_products" /\ response.status = 200)
          => \A i \in DOMAIN response.products :
                FromMetrics(response.products[i].confidence)

ConfidenceInBandWitness ==
    /\ request.op = "predict_price" /\ response.status = 200
    /\ ~model_metrics.empty
    /\ model_metrics.r2_score.kind = "float"
    /\ model_metrics.r2_score.val < 0
    /\ response.confidence_score = Float(600)

\* C16: the recommendation is "increase" exactly when the predicted price is
\* more than 5% above the base price, "decrease" exactly when it is more
\* than 5% below, "optimal" otherwise; exactly +5% and -5% are "optimal".
RecommendationByThreshold ==
    (request.op = "predict_price" /\ response.status = 200)
        => LET p == response.predicted_price
               b == request.product.base_price
               r == response.recommendation
           IN  /\ (r = "Price increase recommended due to market conditions")
                     <=> ((p - b) * 100 > 5 * b)
               /\ (r = "Price reduction suggested to boost sales")
                     <=> ((p - b) * 100 < (-5) * b)
               /\ (r = "Current pricing is optimal")
                     <=> ((p - b) * 100 <= 5 * b /\ (p - b) * 100 >= (-5) * b)
               /\ (100 * p = 105 * b \/ 100 * p = 95 * b)
                     => r = "Current pricing is optimal"

RecommendationByThresholdWitness ==
    /\ request.op = "predict_price" /\ response.status = 200
    /\ 100 * response.predicted_price = 105 * request.product.base_price
    /\ response.recommendation = "Current pricing is optimal"

\* the violations of a batch: <<column, what is wrong with it>>
Violations(df) ==
    {<<col, "negative">> : col \in {c \in non_negative_columns : AnyBelow(df, c, 0)}}
    \cup {<<col, "range">> :
             col \in {c \in {"rating"} : AnyAbove(df, c, 5) \/ AnyBelow(df, c, 0)}}
    \cup {<<col, "unparsable">> :
             col \in {c \in Range(numeric_columns) : IsObject(df, c)}}
    \cup {<<col, "null">> : col \in null_columns(df)}

\* the violations a list of validation errors tells the caller about
Reported(errors) ==
    UNION {LET e == errors[k]
           IN  CASE e.error = "negative values" -> {<<e.column, "negative">>}
                 [] e.error = "rating should be between 0 and 5" ->
                        {<<e.column, "range">>}
                 [] e.error = "Data type validation error" ->
                        {<<e.column, "unparsable">>}
                 [] e.error = "Null values found in columns" ->
                        {<<col, "null">> : col \in e.columns}
                 [] OTHER -> {} : k \in DOMAIN errors}

\* C17: the rejection of a batch with several violations reports every one
\* of them: no check is skipped because another one failed.
AllViolationsReported ==
    (/\ request.op = "upload_data"
     /\ response.status = 400
     /\ response.error = "Data validation failed")
        => Violations(request.file.df) \subseteq Reported(response.validation_errors)

\* C18: after a successful upload dataset.csv has exactly the 13 columns of
\* the schema, whether or not a dataset existed before the upload.
DatasetKeepsSchema ==
    Merged(request, response)
        => dataset_csv.exists /\ dataset_csv.content.columns = required_columns

\* predictions are served: a fitted model and its encoders are in place
PredictionsServed(m, le) ==
    m # None /\ m.fitted /\ DOMAIN le = categorical_columns

\* C19: once a training has completed, in every state that serves
\* predictions the metrics query answers with the metrics computed for the
\* model that serves them, never with "not available" or another model's.
MetricsOfActiveModel ==
    [][ (TrainedAndPersisted /\ PredictionsServed(model', label_encoders'))
        => /\ ModelMetrics(model_metrics').status = 200
           /\ ModelMetrics(model_metrics').metrics.scored.model = model'.data
      ]_vars

=========================================================================
